---- MODULE Spec2Model ----
(***************************************************************************)
(* Layers of paysage (src/paysage/layers.py): Layer, Weights,             *)
(* GaussianLayer, IsingLayer, BernoulliLayer, ExponentialLayer and the     *)
(* registry get().                                                         *)
(*                                                                         *)
(* Numbers.  Tensors hold reals; the model computes exactly on two closed  *)
(* families of reals:                                                      *)
(*   - rationals  <<n, d>>  (d > 0, lowest terms), with <<1,0>>, <<-1,0>>  *)
(*     for +inf, -inf and <<0,0>> for nan where a division produces them;  *)
(*   - logarithms <<a, b>>  (a, b >= 0, lowest terms) standing for         *)
(*     ln(a/b) (Bernoulli loc and fields, Gaussian log_var) or for         *)
(*     (1/2) ln(a/b) (Ising loc and fields); <<0,1>> is -inf, <<1,0>> +inf.*)
(* exp, log, expit, logit, tanh and atanh map one family to the other, so  *)
(* that inverting a moment and reading it back is computed, not assumed.   *)
(***************************************************************************)
EXTENDS Integers, Sequences, FiniteSets, TLC

\* ---- bounds of the model ----
MaxCalls == 3
MaxRows == 3
MaxTokens == 2

\* ---- exact arithmetic ----
Abs(x) == IF x < 0 THEN -x ELSE x

RECURSIVE Gcd(_, _)
Gcd(a, b) == IF b = 0 THEN a ELSE Gcd(b, a % b)

Sgn(x) == IF x > 0 THEN 1 ELSE IF x < 0 THEN -1 ELSE 0

\* the rational n/d in lowest terms; d = 0 gives +inf, -inf or nan
Rat(n, d) ==
    IF d = 0 THEN <<Sgn(n), 0>>
    ELSE LET g == Gcd(Abs(n), Abs(d))
             s == IF d < 0 THEN -1 ELSE 1
         IN  <<(s * n) \div g, (s * d) \div g>>

RInt(k) == <<k, 1>>
RZero == <<0, 1>>
ROne == <<1, 1>>
RFinite(x) == x[2] # 0
RAdd(x, y) == Rat(x[1] * y[2] + y[1] * x[2], x[2] * y[2])
RNeg(x) == <<-x[1], x[2]>>
RSub(x, y) == RAdd(x, RNeg(y))
RMul(x, y) == Rat(x[1] * y[1], x[2] * y[2])
RDiv(x, y) == Rat(x[1] * y[2], x[2] * y[1])
RLess(x, y) ==
    LET g == Gcd(x[2], y[2])
    IN  IF g = 0 THEN x[1] * y[2] < y[1] * x[2]
        ELSE x[1] * (y[2] \div g) < y[1] * (x[2] \div g)

\* ln(a/b) in lowest terms
Ln(a, b) ==
    LET g == Gcd(a, b)
    IN  IF g = 0 THEN <<0, 0>> ELSE <<a \div g, b \div g>>

LZero == <<1, 1>>
LAdd(x, y) == Ln(x[1] * y[1], x[2] * y[2])
LNeg(x) == <<x[2], x[1]>>
LSub(x, y) == LAdd(x, LNeg(y))
LPos(x) == x[1] > x[2]
LLess(x, y) == x[1] * y[2] < y[1] * x[2]

RECURSIVE IntPow(_, _)
IntPow(b, e) == IF e = 0 THEN 1 ELSE b * IntPow(b, e - 1)

\* k * ln(a/b) for an integer k; 0 * inf is nan
LScale(k, x) ==
    IF k = 0 THEN (IF x[1] = 0 \/ x[2] = 0 THEN <<0, 0>> ELSE LZero)
    ELSE IF k > 0 THEN Ln(IntPow(x[1], k), IntPow(x[2], k))
    ELSE Ln(IntPow(x[2], -k), IntPow(x[1], -k))
LFinite(x) == x[1] # 0 /\ x[2] # 0

\* ---- tensors: a vector is a sequence of numbers, a matrix a sequence of rows ----
Vec(n, x) == [i \in 1..n |-> x]
NoneVal == "None"

\* be.zeros(shape): zeros, as a rational and as the logarithm ln(1)
zeros(fam, n) == Vec(n, IF fam = "R" THEN RZero ELSE LZero)

RECURSIVE SumSeq(_)
SumSeq(s) == IF s = <<>> THEN RZero ELSE RAdd(s[1], SumSeq(Tail(s)))

RECURSIVE LSumSeq(_)
LSumSeq(s) == IF s = <<>> THEN LZero ELSE LAdd(s[1], LSumSeq(Tail(s)))

\* be.mean(data, axis=0) of a matrix of integers: the column means
mean_axis0(data) ==
    [j \in 1..Len(data[1]) |->
        RDiv(SumSeq([k \in 1..Len(data) |-> RInt(data[k][j])]), RInt(Len(data)))]

\* be.mean(m, axis=1) of a matrix of rationals: the row means
mean_axis1(m) == [k \in 1..Len(m) |-> RDiv(SumSeq(m[k]), RInt(Len(m[k])))]

\* be.square on a matrix of integers
square(data) == [k \in 1..Len(data) |-> [j \in 1..Len(data[k]) |-> data[k][j] * data[k][j]]]

\* be.exp of a logarithm ln(a/b), be.log of a rational
exp(x) == Rat(x[1], x[2])
log(x) == IF x[2] = 0 THEN (IF x[1] > 0 THEN <<1, 0>> ELSE <<0, 0>>)
          ELSE IF x[1] < 0 THEN <<0, 0>> ELSE Ln(x[1], x[2])

\* be.expit, be.logit: logistic of ln(a/b) is a/(a+b); logit(q) = ln(q/(1-q))
expit(x) == Rat(x[1], x[1] + x[2])
logit(q) == IF q[2] = 0 \/ q[1] < 0 \/ q[1] > q[2] THEN <<0, 0>>
            ELSE Ln(q[1], q[2] - q[1])

\* be.tanh, be.atanh on (1/2) ln(a/b): tanh is (a-b)/(a+b); atanh(q) = (1/2) ln((1+q)/(1-q))
tanh(x) == Rat(x[1] - x[2], x[1] + x[2])
atanh(q) == IF q[2] = 0 \/ q[1] < -q[2] \/ q[1] > q[2] THEN <<0, 0>>
            ELSE Ln(q[2] + q[1], q[2] - q[1])

\* be.reciprocal of a rational
reciprocal(x) == Rat(x[2], x[1])

\* be.dot(scaled_units, weights): integer units (S x C) times weights (C x N)
dot(fam, units, weights) ==
    [k \in 1..Len(units) |->
        [j \in 1..Len(weights[1]) |->
            IF fam = "R"
            THEN SumSeq([c \in 1..Len(weights) |-> RMul(RInt(units[k][c]), weights[c][j])])
            ELSE LSumSeq([c \in 1..Len(weights) |-> LScale(units[k][c], weights[c][j])])]]

\* be.dot(data, loc): integer data (S x N) times a vector (N)
dot_vec(fam, data, v) ==
    [k \in 1..Len(data) |->
        IF fam = "R"
        THEN SumSeq([j \in 1..Len(v) |-> RMul(RInt(data[k][j]), v[j])])
        ELSE LSumSeq([j \in 1..Len(v) |-> LScale(data[k][j], v[j])])]

\* tensor *= be.broadcast(beta, tensor), beta an (S x 1) matrix of integers
scale_by_beta(fam, m, beta) ==
    [k \in 1..Len(m) |->
        [j \in 1..Len(m[k]) |->
            IF fam = "R" THEN RMul(RInt(beta[k][1]), m[k][j])
            ELSE LScale(beta[k][1], m[k][j])]]

\* tensor += be.broadcast(vec, tensor)
add_broadcast(fam, m, v) ==
    [k \in 1..Len(m) |->
        [j \in 1..Len(m[k]) |->
            IF fam = "R" THEN RAdd(m[k][j], v[j]) ELSE LAdd(m[k][j], v[j])]]

\* be.mix_inplace(w, x, y): x = w * x + (1 - w) * y
mix_inplace(w, x, y) ==
    [j \in 1..Len(x) |-> RAdd(RMul(w, x[j]), RMul(RSub(ROne, w), y[j]))]

\* ---- the layer classes ----
Kinds == {"gauss", "ising", "bern", "expo"}
Classes == Kinds \cup {"weights"}

\* names of int_params and ext_params set by each __init__
ParamNames(k) ==
    IF k = "gauss" THEN {"loc", "log_var"}
    ELSE IF k = "weights" THEN {"matrix"} ELSE {"loc"}
ExtNames(k) ==
    IF k = "gauss" THEN {"mean", "variance"}
    ELSE IF k = "expo" THEN {"rate"}
    ELSE IF k = "weights" THEN {} ELSE {"field"}

\* which reals a tensor holds: "R" rationals, "L" logarithms
Family(k, name) ==
    IF k = "gauss" THEN (IF name = "log_var" THEN "L" ELSE "R")
    ELSE IF k \in {"expo", "weights"} THEN "R" ELSE "L"
FieldFamily(k) == IF k \in {"gauss", "expo"} THEN "R" ELSE "L"

EmptyDict == [x \in {} |-> <<>>]

\* Layer.__init__ followed by the subclass __init__
LayerInit(k, n) ==
    [int_params |-> [name \in ParamNames(k) |-> zeros(Family(k, name), n)],
     ext_params |-> [name \in ExtNames(k) |-> <<>>],
     sample_size |-> 0,
     penalties |-> EmptyDict,
     constraints |-> EmptyDict]

\* Weights.__init__ for shape (n, n): Layer.__init__, then the matrix, stored
\* row-major; a weight layer has no ext_params and no sample_size, which stay
\* empty and 0 here
WeightsInit(n, matrix) ==
    [int_params |-> [name \in ParamNames("weights") |-> matrix],
     ext_params |-> EmptyDict,
     sample_size |-> 0,
     penalties |-> EmptyDict,
     constraints |-> EmptyDict]

\* dict.update
DictUpdate(d, e) ==
    [x \in DOMAIN d \cup DOMAIN e |-> IF x \in DOMAIN e THEN e[x] ELSE d[x]]

\* Layer.add_constraint: self.constraint is no attribute of a layer, so the
\* lookup raises before anything is written
Layer_add_constraint(constraints, c) ==
    [constraints |-> constraints, err |-> "AttributeError"]

\* Layer.add_penalty
Layer_add_penalty(penalties, p) ==
    [penalties |-> DictUpdate(penalties, p), err |-> "none"]

\* Layer.enforce_constraints: the loop body reads self.constraint, which raises
\* on the first registered name; an empty self.constraints never enters it
Layer_enforce_constraints(int_params, constraints) ==
    IF DOMAIN constraints = {}
    THEN [int_params |-> int_params, err |-> "none"]
    ELSE [int_params |-> int_params, err |-> "AttributeError"]

\* be.subtract_dicts_inplace(dict1, dict2), dict2 as its items in iteration
\* order: dict1[key] -= dict2[key] for each key, KeyError at the first key
\* dict1 lacks (the keys before it stay subtracted)
RECURSIVE subtract_dicts_inplace(_, _, _)
subtract_dicts_inplace(k, d1, items) ==
    IF items = <<>> THEN [dict |-> d1, err |-> "none"]
    ELSE LET name == items[1][1]
             v == items[1][2]
         IN  IF name \notin DOMAIN d1 THEN [dict |-> d1, err |-> "KeyError"]
             ELSE subtract_dicts_inplace(k,
                    [d1 EXCEPT ![name] =
                        [j \in 1..Len(d1[name]) |->
                            IF Family(k, name) = "R" THEN RSub(d1[name][j], v[j])
                            ELSE LSub(d1[name][j], v[j])]],
                    Tail(items))

\* Layer.parameter_step
Layer_parameter_step(k, int_params, constraints, deltas) ==
    LET sub == subtract_dicts_inplace(k, int_params, deltas)
    IN  IF sub.err # "none" THEN [int_params |-> sub.dict, err |-> sub.err]
        ELSE Layer_enforce_constraints(sub.dict, constraints)

\* x += m on tensors: a vector m of one entry is broadcast over x, a vector of
\* any other length than x's raises ValueError
Broadcasts(x, m) == Len(m) = Len(x) \/ Len(m) = 1
Entry(m, j) == IF Len(m) = 1 THEN m[1] ELSE m[j]

\* a step that averages the old value and the batch mean, whatever their sizes
Recur_unweighted(x, m, ss, n) ==
    [j \in 1..Len(x) |->
        IF ss = 0 THEN Entry(m, j) ELSE RMul(<<1, 2>>, RAdd(x[j], Entry(m, j)))]

\* the moment-matching step shared by the online updates:
\* x *= sample_size / new_sample_size; x += n * mean / new_sample_size
Recur(x, m, ss, n) ==
    [j \in 1..Len(x) |->
        RAdd(RMul(x[j], Rat(ss, n + ss)),
             RDiv(RMul(RInt(n), Entry(m, j)), RInt(n + ss)))]

\* GaussianLayer.online_param_update; int_params['loc'] is scaled in place
\* before the batch mean is added, so a batch that does not broadcast leaves
\* it scaled when the addition raises
Gaussian_online_param_update(ip, ss, data) ==
    LET n == Len(data)
        x2 == [j \in 1..Len(ip.loc) |->
                  RAdd(exp(ip.log_var[j]), RMul(ip.loc[j], ip.loc[j]))]
        loc1 == Recur(ip.loc, mean_axis0(data), ss, n)
        x2n == Recur(x2, mean_axis0(square(data)), ss, n)
    IN  IF ~Broadcasts(ip.loc, mean_axis0(data))
        THEN [int_params |->
                 [ip EXCEPT !.loc = [j \in 1..Len(ip.loc) |->
                                        RMul(ip.loc[j], Rat(ss, n + ss))]],
              sample_size |-> ss,
              err |-> "ValueError"]
        ELSE
        [int_params |->
            [loc |-> loc1,
             log_var |-> [j \in 1..Len(loc1) |->
                             log(RSub(x2n[j], RMul(loc1[j], loc1[j])))]],
         sample_size |-> n + ss,
         err |-> "none"]

\* IsingLayer.online_param_update
Ising_online_param_update(ip, ss, data) ==
    LET n == Len(data)
        x == Recur([j \in 1..Len(ip.loc) |-> tanh(ip.loc[j])], mean_axis0(data), ss, n)
    IN  IF ~Broadcasts(ip.loc, mean_axis0(data))
        THEN [int_params |-> ip, sample_size |-> ss, err |-> "ValueError"]
        ELSE
        [int_params |-> [loc |-> [j \in 1..Len(x) |-> atanh(x[j])]],
         sample_size |-> n + ss,
         err |-> "none"]

\* BernoulliLayer.online_param_update
Bernoulli_online_param_update(ip, ss, data) ==
    LET n == Len(data)
        x == Recur([j \in 1..Len(ip.loc) |-> expit(ip.loc[j])], mean_axis0(data), ss, n)
    IN  IF ~Broadcasts(ip.loc, mean_axis0(data))
        THEN [int_params |-> ip, sample_size |-> ss, err |-> "ValueError"]
        ELSE
        [int_params |-> [loc |-> [j \in 1..Len(x) |-> logit(x[j])]],
         sample_size |-> n + ss,
         err |-> "none"]

\* ExponentialLayer.online_param_update: self.mean(self.int_params['loc'])
\* calls a method that takes no argument, which raises TypeError before
\* anything is written
Exponential_online_param_update(ip, ss, data) ==
    [int_params |-> ip, sample_size |-> ss, err |-> "TypeError"]

online_param_update(k, ip, ss, data) ==
    CASE k = "gauss" -> Gaussian_online_param_update(ip, ss, data)
      [] k = "ising" -> Ising_online_param_update(ip, ss, data)
      [] k = "bern" -> Bernoulli_online_param_update(ip, ss, data)
      [] k = "expo" -> Exponential_online_param_update(ip, ss, data)

\* GaussianLayer.shrink_parameters; the other layers' shrink_parameters pass
Gaussian_shrink_parameters(ip, shrinkage) ==
    LET var == [j \in 1..Len(ip.log_var) |-> exp(ip.log_var[j])]
        mixed == mix_inplace(RSub(ROne, shrinkage), var, Vec(Len(var), ROne))
    IN  [ip EXCEPT !.log_var = [j \in 1..Len(mixed) |-> log(mixed[j])]]

\* a shrinkage that also pulls every other layer's loc to zero
shrink_parameters_loc(k, ip, shrinkage) ==
    IF k = "gauss" THEN Gaussian_shrink_parameters(ip, shrinkage)
    ELSE [ip EXCEPT !.loc = zeros(Family(k, "loc"), Len(ip.loc))]

shrink_parameters(k, ip, shrinkage) ==
    IF k = "gauss" THEN Gaussian_shrink_parameters(ip, shrinkage) ELSE ip

\* ---- field phase ----
NegMatrix(m) == [k \in 1..Len(m) |-> [j \in 1..Len(m[k]) |-> RNeg(m[k][j])]]

\* GaussianLayer.update
Gaussian_update(ip, units, weights, beta) ==
    LET d == dot("R", units, weights)
        t == IF beta # <<>> THEN scale_by_beta("R", d, beta) ELSE d
        m == add_broadcast("R", t, ip.loc)
    IN  [mean |-> m,
         variance |-> [k \in 1..Len(m) |->
                          [j \in 1..Len(m[k]) |-> exp(ip.log_var[j])]]]

\* an update that adds the bias before tempering by beta
Field_update_bias_first(ip, units, weights, beta) ==
    LET d == add_broadcast("L", dot("L", units, weights), ip.loc)
    IN  [field |-> IF beta # <<>> THEN scale_by_beta("L", d, beta) ELSE d]

\* IsingLayer.update, BernoulliLayer.update
Field_update(ip, units, weights, beta) ==
    LET d == dot("L", units, weights)
        t == IF beta # <<>> THEN scale_by_beta("L", d, beta) ELSE d
    IN  [field |-> add_broadcast("L", t, ip.loc)]

\* ExponentialLayer.update
Exponential_update(ip, units, weights, beta) ==
    LET d == NegMatrix(dot("R", units, weights))
        t == IF beta # <<>> THEN scale_by_beta("R", d, beta) ELSE d
    IN  [rate |-> add_broadcast("R", t, ip.loc)]

update(k, ip, units, weights, beta) ==
    CASE k = "gauss" -> Gaussian_update(ip, units, weights, beta)
      [] k \in {"ising", "bern"} -> Field_update(ip, units, weights, beta)
      [] k = "expo" -> Exponential_update(ip, units, weights, beta)

\* ---- readout phase: each returns [ret, err] ----
Map(m, F(_)) == [k \in 1..Len(m) |-> [j \in 1..Len(m[k]) |-> F(m[k][j])]]
Ok(v) == [ret |-> v, err |-> "none"]
Raise(e) == [ret |-> <<>>, err |-> e]

IsingSign(x) == IF LPos(x) THEN 1 ELSE -1
BernSign(x) == IF LPos(x) THEN 1 ELSE 0

\* a mode() that gives the Exponential layer a value, that of its mean
mode_expo_value(k, ext) ==
    CASE k = "gauss" -> Ok(ext.mean)
      [] k = "ising" -> IF ext.field = <<>> THEN Raise("TypeError")
                        ELSE Ok(Map(ext.field, IsingSign))
      [] k = "bern" -> IF ext.field = <<>> THEN Raise("TypeError")
                       ELSE Ok(Map(ext.field, BernSign))
      [] k = "expo" -> IF ext.rate = <<>> THEN Raise("TypeError")
                       ELSE Ok(Map(ext.rate, reciprocal))

\* GaussianLayer.mode / IsingLayer.mode / BernoulliLayer.mode / ExponentialLayer.mode;
\* a comparison of None with a number raises TypeError
mode(k, ext) ==
    CASE k = "gauss" -> Ok(ext.mean)
      [] k = "ising" -> IF ext.field = <<>> THEN Raise("TypeError")
                        ELSE Ok(Map(ext.field, IsingSign))
      [] k = "bern" -> IF ext.field = <<>> THEN Raise("TypeError")
                       ELSE Ok(Map(ext.field, BernSign))
      [] k = "expo" -> Raise("NotImplementedError")

\* the layers' mean(); a transcendental function of None raises TypeError
mean(k, ext) ==
    CASE k = "gauss" -> Ok(ext.mean)
      [] k = "ising" -> IF ext.field = <<>> THEN Raise("TypeError")
                        ELSE Ok(Map(ext.field, tanh))
      [] k = "bern" -> IF ext.field = <<>> THEN Raise("TypeError")
                       ELSE Ok(Map(ext.field, expit))
      [] k = "expo" -> IF ext.rate = <<>> THEN Raise("TypeError")
                       ELSE Ok(Map(ext.rate, reciprocal))

\* r < expit(x) for a rational draw r in [0, 1) and x = ln(a/b)
LessExpit(r, x) == RLess(r, expit(x))

\* r < expit(x) for x = (1/2) ln(a/b): expit(x) = 1 / (1 + sqrt(b/a)), so
\* r < expit(x) iff sqrt(b/a) < (1 - r)/r iff b r^2 < a (1 - r)^2
LessExpitHalf(r, x) ==
    IF r[1] = 0 THEN x[1] > 0
    ELSE x[2] * r[1] * r[1] < x[1] * (r[2] - r[1]) * (r[2] - r[1])

\* the layers' sample_state(), r the uniform or normal draws of the ext shape.
\* Gaussian returns mean + sqrt(variance) * r and Exponential -log(r) / rate,
\* kept as the terms <<mean, variance, r>> and <<r, rate>>.
sample_state(k, ext, r) ==
    CASE k = "gauss" ->
            IF ext.mean = <<>> THEN Raise("AttributeError")
            ELSE Ok([i \in 1..Len(r) |-> [j \in 1..Len(r[i]) |->
                        <<ext.mean[i][j], ext.variance[i][j], r[i][j]>>]])
      [] k = "ising" ->
            IF ext.field = <<>> THEN Raise("TypeError")
            ELSE Ok([i \in 1..Len(r) |-> [j \in 1..Len(r[i]) |->
                        IF LessExpitHalf(r[i][j], ext.field[i][j]) THEN 1 ELSE -1]])
      [] k = "bern" ->
            IF ext.field = <<>> THEN Raise("TypeError")
            ELSE Ok([i \in 1..Len(r) |-> [j \in 1..Len(r[i]) |->
                        IF LessExpit(r[i][j], ext.field[i][j]) THEN 1 ELSE 0]])
      [] k = "expo" ->
            IF ext.rate = <<>> THEN Raise("AttributeError")
            ELSE Ok([i \in 1..Len(r) |-> [j \in 1..Len(r[i]) |->
                        <<r[i][j], ext.rate[i][j]>>]])

\* the layers' random(array_or_shape), r the draws of that shape
HalfLess(x) == RLess(x, <<1, 2>>)
random(k, r) ==
    CASE k = "gauss" -> Ok(r)
      [] k = "ising" -> Ok(Map(r, LAMBDA x : IF HalfLess(x) THEN 1 ELSE -1))
      [] k = "bern" -> Ok(Map(r, LAMBDA x : IF HalfLess(x) THEN 1 ELSE 0))
      [] k = "expo" -> Ok(Map(r, LAMBDA x : LNeg(log(x))))

\* the layers' rescale(observations)
rescale(k, ip, obs) ==
    IF k = "gauss"
    THEN [i \in 1..Len(obs) |-> [j \in 1..Len(obs[i]) |->
             RDiv(RInt(obs[i][j]), exp(ip.log_var[j]))]]
    ELSE obs

\* ---- energy ----
\* GaussianLayer.energy: 0.5 * mean_i (v_i - loc_i)^2 / var_i, a rational per sample
Gaussian_energy(ip, vis) ==
    LET res == [i \in 1..Len(vis) |-> [j \in 1..Len(vis[i]) |->
                   LET dv == RSub(RInt(vis[i][j]), ip.loc[j])
                   IN  RDiv(RMul(dv, dv), exp(ip.log_var[j]))]]
        m == mean_axis1(res)
    IN  [i \in 1..Len(m) |-> RMul(<<1, 2>>, m[i])]

\* an energy of the other sign
Field_energy_positive(ip, n, data) ==
    LET d == dot_vec("L", data, ip.loc)
    IN  [i \in 1..Len(d) |-> <<d[i], n>>]

\* IsingLayer.energy, BernoulliLayer.energy: -dot(data, loc) / len.  The dot
\* product is a logarithm x; the result is the term <<-x, len>> for (-x)/len.
Field_energy(ip, n, data) ==
    LET d == dot_vec("L", data, ip.loc)
    IN  [i \in 1..Len(d) |-> <<LNeg(d[i]), n>>]

\* ExponentialLayer.energy: dot(data, loc) / len
Exponential_energy(ip, n, data) ==
    LET d == dot_vec("R", data, ip.loc)
    IN  [i \in 1..Len(d) |-> RDiv(d[i], RInt(n))]

energy(k, ip, n, data) ==
    CASE k = "gauss" -> Gaussian_energy(ip, data)
      [] k \in {"ising", "bern"} -> Field_energy(ip, n, data)
      [] k = "expo" -> Exponential_energy(ip, n, data)

\* e1 < e2 for two energies of one layer
EnergyLess(k, e1, e2) ==
    IF k \in {"ising", "bern"} THEN LLess(e1[1], e2[1]) ELSE RLess(e1, e2)

\* ---- log partition function ----
\* GaussianLayer.log_partition_function: loc * phi + scale * phi^2 + log(scale),
\* the term <<rational, logarithm>> for their sum
Gaussian_log_partition_function(ip, phi) ==
    [i \in 1..Len(phi) |-> [j \in 1..Len(phi[i]) |->
        LET scale == exp(ip.log_var[j])
        IN  <<RAdd(RMul(ip.loc[j], phi[i][j]), RMul(scale, RMul(phi[i][j], phi[i][j]))),
              log(scale)>>]]

\* be.logcosh of (1/2) ln(a/b): cosh is (a + b) / (2 sqrt(a b)), so the
\* result is (1/2) ln((a + b)^2 / (4 a b))
logcosh(x) == Ln((x[1] + x[2]) * (x[1] + x[2]), 4 * x[1] * x[2])

\* be.softplus of ln(a/b): ln(1 + a/b)
softplus(x) == Ln(x[1] + x[2], x[2])

\* IsingLayer.log_partition_function
Ising_log_partition_function(ip, phi) ==
    Map(add_broadcast("L", phi, ip.loc), logcosh)

\* BernoulliLayer.log_partition_function
Bernoulli_log_partition_function(ip, phi) ==
    Map(add_broadcast("L", phi, ip.loc), softplus)

\* ExponentialLayer.log_partition_function: -log(loc - phi)
Exponential_log_partition_function(ip, phi) ==
    [i \in 1..Len(phi) |-> [j \in 1..Len(phi[i]) |->
        LNeg(log(RSub(ip.loc[j], phi[i][j])))]]

log_partition_function(k, ip, phi) ==
    CASE k = "gauss" -> Gaussian_log_partition_function(ip, phi)
      [] k = "ising" -> Ising_log_partition_function(ip, phi)
      [] k = "bern" -> Bernoulli_log_partition_function(ip, phi)
      [] k = "expo" -> Exponential_log_partition_function(ip, phi)

\* ---- penalties and derivatives ----
\* A penalty is <<"l2", c>> (gradient c * x) or <<"l1", c>> (gradient
\* c * sign(x)).  A gradient entry is the term <<r, l>>: the rational r plus
\* the logarithm l (ln(1) when there is none).
LSgn(x) == IF x[1] > x[2] THEN 1 ELSE IF x[1] < x[2] THEN -1 ELSE 0

PenaltyGrad(pen, fam, x) ==
    IF pen[1] = "l2"
    THEN (IF fam = "R" THEN <<RMul(RInt(pen[2]), x), LZero>>
          ELSE <<RZero, LScale(pen[2], x)>>)
    ELSE <<RInt(pen[2] * (IF fam = "R" THEN Sgn(x[1]) ELSE LSgn(x))), LZero>>

\* Layer.get_penalty_gradients
Layer_get_penalty_gradients(k, ip, penalties) ==
    [name \in DOMAIN penalties |->
        [j \in 1..Len(ip[name]) |->
            PenaltyGrad(penalties[name], Family(k, name), ip[name][j])]]

\* be.add_dicts_inplace(dict1, dict2): dict1[key] += dict2[key]
add_dicts_inplace(d1, d2) ==
    [name \in DOMAIN d1 |->
        IF name \in DOMAIN d2
        THEN [j \in 1..Len(d1[name]) |->
                 <<RAdd(d1[name][j][1], d2[name][j][1]),
                   LAdd(d1[name][j][2], d2[name][j][2])>>]
        ELSE d1[name]]

Term(r) == <<r, LZero>>

\* derivatives of the other sign: + mean(vis)
Field_derivatives_positive(k, ip, penalties, vis) ==
    LET m == mean_axis0(vis)
    IN  add_dicts_inplace([loc |-> [j \in 1..Len(m) |-> Term(m[j])]],
                          Layer_get_penalty_gradients(k, ip, penalties))

\* IsingLayer.derivatives, BernoulliLayer.derivatives
Field_derivatives(k, ip, penalties, vis) ==
    LET m == mean_axis0(vis)
    IN  add_dicts_inplace([loc |-> [j \in 1..Len(m) |-> Term(RNeg(m[j]))]],
                          Layer_get_penalty_gradients(k, ip, penalties))

\* ExponentialLayer.derivatives
Exponential_derivatives(ip, penalties, vis) ==
    LET m == mean_axis0(vis)
    IN  add_dicts_inplace([loc |-> [j \in 1..Len(m) |-> Term(m[j])]],
                          Layer_get_penalty_gradients("expo", ip, penalties))

\* GaussianLayer.derivatives; batch_dot(hid, W^T, vis, axis=0) is
\* sum_k vis_kj * (hid_k . W_j)
Gaussian_derivatives(ip, penalties, vis, hid, weights) ==
    LET n == Len(vis)
        cols == 1..Len(ip.loc)
        var == [j \in cols |-> exp(ip.log_var[j])]
        dloc == [j \in cols |->
                    RNeg(RDiv(SumSeq([i \in 1..n |-> RDiv(RInt(vis[i][j]), var[j])]),
                              RInt(n)))]
        diff == [j \in cols |->
                    RDiv(SumSeq([i \in 1..n |->
                            LET dv == RSub(RInt(vis[i][j]), ip.loc[j])
                            IN  RMul(dv, dv)]), RInt(n))]
        cross == [j \in cols |->
                    RDiv(SumSeq([i \in 1..n |->
                            RMul(RInt(vis[i][j]),
                                 SumSeq([h \in 1..Len(hid[i]) |->
                                    RMul(RInt(hid[i][h]), weights[j][h])]))]),
                         RInt(n))]
        dvar == [j \in cols |->
                    RDiv(RAdd(RMul(<<-1, 2>>, diff[j]), cross[j]), var[j])]
    IN  add_dicts_inplace([loc |-> [j \in cols |-> Term(dloc[j])],
                           log_var |-> [j \in cols |-> Term(dvar[j])]],
                          Layer_get_penalty_gradients("gauss", ip, penalties))

derivatives(k, ip, penalties, vis, hid, weights) ==
    CASE k = "gauss" -> Gaussian_derivatives(ip, penalties, vis, hid, weights)
      [] k \in {"ising", "bern"} -> Field_derivatives(k, ip, penalties, vis)
      [] k = "expo" -> Exponential_derivatives(ip, penalties, vis)

\* ---- the weight layer ----
\* entry (i, j) of a row-major matrix with m columns
At(w, m, i, j) == w[(i - 1) * m + j]

\* be.transpose of an n x m matrix
transpose(w, n, m) ==
    [x \in 1..(n * m) |-> At(w, m, ((x - 1) % n) + 1, ((x - 1) \div n) + 1)]

\* be.batch_outer(vis, hid) = sum_k vis_k hid_k^T, an n x m matrix
batch_outer(vis, hid, n, m) ==
    [x \in 1..(n * m) |->
        SumSeq([k \in 1..Len(vis) |->
            RInt(vis[k][((x - 1) \div m) + 1] * hid[k][((x - 1) % m) + 1])])]

\* be.batch_dot(vis, W, hid): vis_k^T W hid_k for each sample k
batch_dot(vis, w, hid, n, m) ==
    [k \in 1..Len(vis) |->
        SumSeq([x \in 1..(n * m) |->
            RMul(RInt(vis[k][((x - 1) \div m) + 1] * hid[k][((x - 1) % m) + 1]), w[x])])]

\* Weights.W
Weights_W(ip) == ip.matrix

\* Weights.W_T
Weights_W_T(ip, n) == transpose(ip.matrix, n, n)

\* Weights.derivatives
Weights_derivatives(ip, penalties, vis, hid, n) ==
    LET outer == batch_outer(vis, hid, n, n)
    IN  add_dicts_inplace(
            [matrix |-> [x \in 1..(n * n) |->
                            Term(RDiv(RNeg(outer[x]), RInt(Len(vis))))]],
            Layer_get_penalty_gradients("weights", ip, penalties))

\* Weights.energy
Weights_energy(ip, vis, hid, n) ==
    LET e == batch_dot(vis, ip.matrix, hid, n, n)
    IN  [k \in 1..Len(e) |-> RNeg(e[k])]

\* ---- the registry ----
LowerChar(c) ==
    CASE c = "A" -> "a" [] c = "B" -> "b" [] c = "E" -> "e" [] c = "G" -> "g"
      [] c = "I" -> "i" [] c = "L" -> "l" [] c = "N" -> "n" [] c = "O" -> "o"
      [] c = "P" -> "p" [] c = "R" -> "r" [] c = "S" -> "s" [] c = "U" -> "u"
      [] c = "X" -> "x" [] c = "Y" -> "y" [] c = "Q" -> "q"
      [] OTHER -> c

\* str.lower
lower(key) == [i \in 1..Len(key) |-> LowerChar(key[i])]

\* the Python test: tok in key
Contains(key, tok) ==
    \E i \in 1..(Len(key) - Len(tok) + 1) : SubSeq(key, i, i + Len(tok) - 1) = tok

\* get with the ising test ahead of the gauss test
get_ising_first(key) ==
    IF Contains(lower(key), <<"i", "s", "i", "n", "g">>) THEN Ok("IsingLayer")
    ELSE IF Contains(lower(key), <<"g", "a", "u", "s", "s">>) THEN Ok("GaussianLayer")
    ELSE IF Contains(lower(key), <<"b", "e", "r", "n">>) THEN Ok("BernoulliLayer")
    ELSE IF Contains(lower(key), <<"e", "x", "p", "o">>) THEN Ok("ExponentialLayer")
    ELSE Raise("ValueError")

\* get(key)
get(key) ==
    IF Contains(lower(key), <<"g", "a", "u", "s", "s">>) THEN Ok("GaussianLayer")
    ELSE IF Contains(lower(key), <<"i", "s", "i", "n", "g">>) THEN Ok("IsingLayer")
    ELSE IF Contains(lower(key), <<"b", "e", "r", "n">>) THEN Ok("BernoulliLayer")
    ELSE IF Contains(lower(key), <<"e", "x", "p", "o">>) THEN Ok("ExponentialLayer")
    ELSE Raise("ValueError")

\* ---- the state ----
VARIABLES kind, len, int_params, ext_params, sample_size, penalties, constraints,
          call, ncalls, rows_total, data_sum, requested, last_update

vars == <<kind, len, int_params, ext_params, sample_size, penalties, constraints,
          call, ncalls, rows_total, data_sum, requested, last_update>>

\* kind, len                : the layer class and its num_units (self.len)
\* int_params .. constraints: the layer's attributes
\* call                     : the last call made: [op, arg, ret, err]
\* ncalls                   : calls made so far
\* rows_total, data_sum     : the rows passed to online_param_update so far:
\*                            their number, column sums and sums of squares
\* requested                : the constraints callers passed to add_constraint,
\*                            last registration per name
\* last_update              : the arguments and int_params of the last update

layer == <<kind, len>>
attrs == <<int_params, ext_params, sample_size, penalties, constraints>>
history == <<rows_total, data_sum, requested, last_update>>

Call(op, arg, ret, err) == [op |-> op, arg |-> arg, ret |-> ret, err |-> err]

UnitCounts == {2}

\* 0.01 * be.randn(shape): two of its draws
Randn(n) ==
    {[x \in 1..(n * n) |-> Rat(IF x % 2 = 1 THEN 1 ELSE -1, 100)],
     [x \in 1..(n * n) |-> Rat(x - 2, 100)]}

\* a unit layer of len units, or a weight layer of shape (len, len)
Init ==
    /\ kind \in Classes
    /\ len \in UnitCounts
    /\ \E l \in (IF kind = "weights"
                 THEN {WeightsInit(len, m) : m \in Randn(len)}
                 ELSE {LayerInit(kind, len)}) :
          /\ int_params = l.int_params
          /\ ext_params = l.ext_params
          /\ sample_size = l.sample_size
          /\ penalties = l.penalties
          /\ constraints = l.constraints
    /\ call = Call("__init__", <<>>, <<>>, "none")
    /\ ncalls = 0
    /\ rows_total = 0
    /\ data_sum = [s1 |-> Vec(len, 0), s2 |-> Vec(len, 0)]
    /\ requested = EmptyDict
    /\ last_update = <<>>

\* ---- inputs ----
Lo(k) == CASE k = "gauss" -> -1 [] k = "ising" -> -1 [] k = "bern" -> 0 [] k = "expo" -> 1
Hi(k) == CASE k = "gauss" -> 2 [] k = "ising" -> 1 [] k = "bern" -> 1 [] k = "expo" -> 2
Vals(k) == {Lo(k), Hi(k)}

\* observed batches of 1 or 2 rows: every row, and two rows only
Rows(k, n) == [1..n -> Vals(k)]
SomeRows(k, n) == {Vec(n, Hi(k)), [j \in 1..n |-> IF j = 1 THEN Hi(k) ELSE Lo(k)]}
Batches(rows) == UNION {[1..r -> rows] : r \in 1..2}

\* two samples that differ in one unit, the second having the larger value
Pairs(k, n) ==
    {<<[j \in 1..n |-> IF j = u THEN Lo(k) ELSE row[j]],
       [j \in 1..n |-> IF j = u THEN Hi(k) ELSE row[j]]>> :
        u \in 1..n, row \in SomeRows(k, n)}

DeltaVals(fam) == IF fam = "R" THEN {<<1, 2>>, <<-1, 1>>} ELSE {<<2, 1>>, <<1, 3>>}
DeltaVecs(fam, n) ==
    {[j \in 1..n |-> IF j % 2 = 1 THEN (IF fam = "R" THEN <<-1, 1>> ELSE <<1, 3>>)
                     ELSE (IF fam = "R" THEN <<1, 2>> ELSE <<2, 1>>)],
     Vec(n, IF fam = "R" THEN <<-1, 4>> ELSE <<1, 2>>)}

\* deltas naming a parameter the layer does not have, alone and after loc
UnknownDeltas(k, n) ==
    LET v == Vec(n, IF Family(k, "loc") = "R" THEN <<-1, 4>> ELSE <<1, 2>>)
    IN  {<<<<"scale", v>>>>, <<<<"loc", v>>, <<"scale", v>>>>}

\* batches whose rows do not have num_units entries: one column, one too many
Mismatched(k, n) ==
    {<<<<Hi(k)>>, <<Lo(k)>>>>, <<Vec(n + 1, Hi(k))>>}

\* deltas dicts, as their items in iteration order
Deltas(k, n) ==
    IF k = "weights" THEN {<<>>} \cup {<<<<"matrix", v>>>> : v \in DeltaVecs("R", n * n)}
    ELSE
    {<<>>} \cup
    {<<<<"loc", v>>>> : v \in DeltaVecs(Family(k, "loc"), n)} \cup
    (IF k = "gauss"
     THEN {<<<<"loc", Vec(n, <<-1, 1>>)>>, <<"log_var", Vec(n, <<2, 1>>)>>>>}
     ELSE {}) \cup
    UnknownDeltas(k, n)

ConstraintFns == {"non_negative", "non_positive"}
MainParam(k) == IF k = "weights" THEN "matrix" ELSE "loc"
ConstraintDicts(k) == {[name \in {MainParam(k)} |-> c] : c \in ConstraintFns}

PenaltyFns == {<<"l2", 1>>, <<"l1", 2>>}
PenaltyDicts(k) ==
    {[name \in {MainParam(k)} |-> f] : f \in PenaltyFns} \cup
    (IF k = "gauss" THEN {[name \in {"log_var"} |-> <<"l2", 1>>]} ELSE {})

Shrinkages == {<<1, 10>>, <<1, 1>>}

\* connected units (num_samples x 2), weights (2 x num_units), beta (num_samples x 1)
ScaledUnits == {<<<<1, 1>>>>, <<<<0, 1>>, <<2, -1>>>>}
WeightMat(fam, n) ==
    [c \in 1..2 |-> [j \in 1..n |->
        IF (c + j) % 2 = 0 THEN (IF fam = "R" THEN <<1, 2>> ELSE <<2, 1>>)
        ELSE (IF fam = "R" THEN <<-1, 1>> ELSE <<1, 3>>)]]
WeightMats(fam, n) ==
    {WeightMat(fam, n), [c \in 1..2 |-> Vec(n, IF fam = "R" THEN <<1, 1>> ELSE <<3, 1>>)]}
Betas(units) == {<<>>, [i \in 1..Len(units) |-> <<i + 1>>]}

\* external fields phi (1 x num_units)
Phis(fam, n) == {<<v>> : v \in DeltaVecs(fam, n)}

\* random draws: normal for Gaussian, uniform in [0, 1) otherwise
DrawVals(k) == IF k = "gauss" THEN {<<-1, 1>>, <<1, 2>>} ELSE {<<0, 1>>, <<1, 2>>}
Draws(k, rows, n) == {[i \in 1..rows |-> Vec(n, d)] : d \in DrawVals(k)}

\* ---- the operations ----
Observe(op, arg, ret, err) == call' = Call(op, arg, ret, err)

\* one more call, while the model's budget of calls lasts
Counted == ncalls < MaxCalls /\ ncalls' = ncalls + 1

\* the operations of the unit layers are enabled on them only
UnitLayer == kind \in Kinds

AddConstraint ==
    /\ Counted
    /\ \E c \in ConstraintDicts(kind) :
           LET r == Layer_add_constraint(constraints, c)
           IN  /\ constraints' = r.constraints
               /\ requested' = DictUpdate(requested, c)
               /\ Observe("add_constraint", c, <<>>, r.err)
               /\ UNCHANGED <<layer, int_params, ext_params, sample_size, penalties,
                              rows_total, data_sum, last_update>>

EnforceConstraints ==
    /\ Counted
    /\ LET r == Layer_enforce_constraints(int_params, constraints)
       IN  /\ int_params' = r.int_params
           /\ Observe("enforce_constraints", <<>>, <<>>, r.err)
           /\ UNCHANGED <<layer, ext_params, sample_size, penalties, constraints, history>>

AddPenalty ==
    /\ Counted
    /\ \E p \in PenaltyDicts(kind) :
           LET r == Layer_add_penalty(penalties, p)
           IN  /\ penalties' = r.penalties
               /\ Observe("add_penalty", p, <<>>, r.err)
               /\ UNCHANGED <<layer, int_params, ext_params, sample_size, constraints, history>>

\* Layer.get_penalties evaluates each penalty and returns nothing
GetPenalties ==
    /\ Counted
    /\ /\ Observe("get_penalties", <<>>, <<>>, "none")
       /\ UNCHANGED <<layer, attrs, history>>

GetPenaltyGradients ==
    /\ Counted
    /\ /\ Observe("get_penalty_gradients", <<>>,
                  Layer_get_penalty_gradients(kind, int_params, penalties), "none")
       /\ UNCHANGED <<layer, attrs, history>>

ParameterStep ==
    /\ Counted
    /\ \E deltas \in Deltas(kind, len) :
           LET r == Layer_parameter_step(kind, int_params, constraints, deltas)
           IN  /\ int_params' = r.int_params
               /\ Observe("parameter_step", deltas, <<>>, r.err)
               /\ UNCHANGED <<layer, ext_params, sample_size, penalties, constraints, history>>

\* online_param_update(data)
OnlineCall(data) ==
    LET r == online_param_update(kind, int_params, sample_size, data)
        sq == square(data)
    IN  /\ int_params' = r.int_params
        /\ sample_size' = r.sample_size
        /\ rows_total' = rows_total + Len(data)
        /\ data_sum' =
              IF Len(data[1]) \notin {1, len} THEN data_sum
              ELSE
              [s1 |-> [j \in 1..len |->
                          data_sum.s1[j]
                          + SumSeq([i \in 1..Len(data) |-> RInt(Entry(data[i], j))])[1]],
               s2 |-> [j \in 1..len |->
                          data_sum.s2[j]
                          + SumSeq([i \in 1..Len(data) |-> RInt(Entry(sq[i], j))])[1]]]
        /\ Observe("online_param_update", data, <<>>, r.err)
        /\ UNCHANGED <<layer, ext_params, penalties, constraints, requested, last_update>>

OnlineParamUpdate ==
    /\ Counted
    /\ UnitLayer
    /\ \E data \in Batches(SomeRows(kind, len)) \cup Mismatched(kind, len) :
           OnlineCall(data)

ShrinkParameters ==
    /\ Counted
    /\ UnitLayer
    /\ \E shrinkage \in Shrinkages :
           /\ int_params' = shrink_parameters(kind, int_params, shrinkage)
           /\ Observe("shrink_parameters", shrinkage, <<>>, "none")
           /\ UNCHANGED <<layer, ext_params, sample_size, penalties, constraints, history>>

Update ==
    /\ Counted
    /\ UnitLayer
    /\ \E units \in ScaledUnits :
         \E weights \in WeightMats(FieldFamily(kind), len) :
           \E beta \in Betas(units) :
               /\ ext_params' = update(kind, int_params, units, weights, beta)
               /\ last_update' = [units |-> units, weights |-> weights, beta |-> beta,
                                  int_params |-> int_params]
               /\ Observe("update", <<>>, <<>>, "none")
               /\ UNCHANGED <<layer, int_params, sample_size, penalties, constraints,
                              rows_total, data_sum, requested>>

Mode ==
    /\ Counted
    /\ UnitLayer
    /\ LET r == mode(kind, ext_params)
       IN  /\ Observe("mode", <<>>, r.ret, r.err)
           /\ UNCHANGED <<layer, attrs, history>>

Mean ==
    /\ Counted
    /\ UnitLayer
    /\ LET r == mean(kind, ext_params)
       IN  /\ Observe("mean", <<>>, r.ret, r.err)
           /\ UNCHANGED <<layer, attrs, history>>

\* the number of samples of the extrinsic parameters (1 before any update)
ExtRows == IF last_update = <<>> THEN 1 ELSE Len(last_update.units)

SampleState ==
    /\ Counted
    /\ UnitLayer
    /\ \E r \in Draws(kind, ExtRows, len) :
           /\ LET res == sample_state(kind, ext_params, r)
              IN  Observe("sample_state", r, res.ret, res.err)
           /\ UNCHANGED <<layer, attrs, history>>

Random ==
    /\ Counted
    /\ UnitLayer
    /\ \E r \in Draws(kind, 1, len) :
           /\ LET res == random(kind, r)
              IN  Observe("random", r, res.ret, res.err)
           /\ UNCHANGED <<layer, attrs, history>>

Rescale ==
    /\ Counted
    /\ UnitLayer
    /\ \E obs \in {<<row>> : row \in SomeRows(kind, len)} :
           /\ Observe("rescale", obs, rescale(kind, int_params, obs), "none")
           /\ UNCHANGED <<layer, attrs, history>>

Energy ==
    /\ Counted
    /\ UnitLayer
    /\ \E data \in Pairs(kind, len) :
           /\ Observe("energy", data, energy(kind, int_params, len, data), "none")
           /\ UNCHANGED <<layer, attrs, history>>

LogPartitionFunction ==
    /\ Counted
    /\ UnitLayer
    /\ \E phi \in Phis(FieldFamily(kind), len) :
           /\ Observe("log_partition_function", phi,
                      log_partition_function(kind, int_params, phi), "none")
           /\ UNCHANGED <<layer, attrs, history>>

Derivatives ==
    /\ Counted
    /\ UnitLayer
    /\ \E vis \in {<<row>> : row \in SomeRows(kind, len)} \cup {<<Vec(len, Lo(kind)), Vec(len, Hi(kind))>>} :
           LET hid == [i \in 1..Len(vis) |-> <<i>>]
               weights == [j \in 1..len |-> <<1, 2>>]
           IN  /\ Observe("derivatives", <<vis, hid, weights>>,
                          derivatives(kind, int_params, penalties, vis, hid,
                                      [j \in 1..len |-> <<weights[j]>>]), "none")
               /\ UNCHANGED <<layer, attrs, history>>

\* the weight layer's hidden units, one row per visible row
Hidden(vis, n) == [k \in 1..Len(vis) |-> [j \in 1..n |-> IF j = k THEN 1 ELSE -1]]

W ==
    /\ Counted
    /\ kind = "weights"
    /\ Observe("W", <<>>, Weights_W(int_params), "none")
    /\ UNCHANGED <<layer, attrs, history>>

W_T ==
    /\ Counted
    /\ kind = "weights"
    /\ Observe("W_T", <<>>, Weights_W_T(int_params, len), "none")
    /\ UNCHANGED <<layer, attrs, history>>

WeightsDerivatives ==
    /\ Counted
    /\ kind = "weights"
    /\ \E vis \in Batches(SomeRows("ising", len)) :
           /\ Observe("derivatives", <<vis, Hidden(vis, len)>>,
                      Weights_derivatives(int_params, penalties, vis, Hidden(vis, len), len),
                      "none")
           /\ UNCHANGED <<layer, attrs, history>>

WeightsEnergy ==
    /\ Counted
    /\ kind = "weights"
    /\ \E vis \in Batches(SomeRows("ising", len)) :
           /\ Observe("energy", <<vis, Hidden(vis, len)>>,
                      Weights_energy(int_params, vis, Hidden(vis, len), len), "none")
           /\ UNCHANGED <<layer, attrs, history>>

Next ==
    \/ AddConstraint
    \/ EnforceConstraints
    \/ AddPenalty
    \/ GetPenalties
    \/ GetPenaltyGradients
    \/ ParameterStep
    \/ OnlineParamUpdate
    \/ ShrinkParameters
    \/ Update
    \/ Mode
    \/ Mean
    \/ SampleState
    \/ Random
    \/ Rescale
    \/ Energy
    \/ LogPartitionFunction
    \/ Derivatives
    \/ W
    \/ W_T
    \/ WeightsDerivatives
    \/ WeightsEnergy

Spec == Init /\ [][Next]_vars

\* a fresh layer fed mini-batches only: every row, up to MaxRows rows in all
MomentsNext ==
    /\ UNCHANGED ncalls
    /\ UnitLayer
    /\ \E data \in Batches(Rows(kind, len)) :
          /\ rows_total + Len(data) <= MaxRows
          /\ OnlineCall(data)

SpecMoments == Init /\ [][MomentsNext]_vars

\* ---- the registry on its own: a key, then get(key) ----
Tokens ==
    {<<"G", "A", "U", "S", "S">>, <<"G", "a", "u", "s", "s">>, <<"I", "A", "N">>,
     <<"_", "l", "a", "y", "e", "r">>, <<"q", "u">>, <<"u", "x">>,
     <<"I", "s", "i", "n", "g">>, <<"B", "e", "r", "n">>, <<"E", "X", "P", "O">>,
     <<"g", "a", "u">>, <<"s", "s">>}

RECURSIVE Concat(_)
Concat(ts) == IF ts = <<>> THEN <<>> ELSE ts[1] \o Concat(Tail(ts))

Keys == {Concat(ts) : ts \in UNION {[1..n -> Tokens] : n \in 1..MaxTokens}}

InitRegistry ==
    /\ kind = "gauss"
    /\ len \in UnitCounts
    /\ int_params = LayerInit(kind, len).int_params
    /\ ext_params = LayerInit(kind, len).ext_params
    /\ sample_size = 0
    /\ penalties = EmptyDict
    /\ constraints = EmptyDict
    /\ call \in {Call("key", key, <<>>, "none") : key \in Keys}
    /\ ncalls = 0
    /\ rows_total = 0
    /\ data_sum = [s1 |-> Vec(len, 0), s2 |-> Vec(len, 0)]
    /\ requested = EmptyDict
    /\ last_update = <<>>

Get ==
    /\ call.op = "key"
    /\ LET r == get(call.arg)
       IN  Observe("get", call.arg, r.ret, r.err)
    /\ UNCHANGED <<layer, attrs, history, ncalls>>

SpecRegistry == InitRegistry /\ [][Get]_vars

\* ======================= the claims =======================

\* ---- C7 ----
UpperChar(c) ==
    CASE c = "a" -> "A" [] c = "b" -> "B" [] c = "e" -> "E" [] c = "g" -> "G"
      [] c = "i" -> "I" [] c = "n" -> "N" [] c = "o" -> "O" [] c = "p" -> "P"
      [] c = "r" -> "R" [] c = "s" -> "S" [] c = "u" -> "U" [] c = "x" -> "X"
      [] OTHER -> c

\* key holds tok at some place, each letter in either case
HasToken(key, tok) ==
    \E i \in 1..(Len(key) - Len(tok) + 1) :
        \A o \in 1..Len(tok) :
            key[i + o - 1] = tok[o] \/ key[i + o - 1] = UpperChar(tok[o])

TokGauss == <<"g", "a", "u", "s", "s">>
TokIsing == <<"i", "s", "i", "n", "g">>
TokBern == <<"b", "e", "r", "n">>
TokExpo == <<"e", "x", "p", "o">>

\* C7: get(key) returns the Gaussian constructor when key holds 'gauss' in any
\* letter case, otherwise Ising for 'ising', otherwise Bernoulli for 'bern',
\* otherwise Exponential for 'expo', and raises the unknown-layer-type error,
\* returning nothing, exactly when key holds none of the four.
C7_RegistryFirstMatch ==
    call.op = "get" =>
        LET key == call.arg
            g == HasToken(key, TokGauss)
            i == HasToken(key, TokIsing)
            b == HasToken(key, TokBern)
            e == HasToken(key, TokExpo)
        IN  /\ g => call.err = "none" /\ call.ret = "GaussianLayer"
            /\ (~g /\ i) => call.err = "none" /\ call.ret = "IsingLayer"
            /\ (~g /\ ~i /\ b) => call.err = "none" /\ call.ret = "BernoulliLayer"
            /\ (~g /\ ~i /\ ~b /\ e) => call.err = "none" /\ call.ret = "ExponentialLayer"
            /\ (call.err = "ValueError") <=> (~g /\ ~i /\ ~b /\ ~e)
            /\ call.err = "ValueError" => call.ret = <<>>

\* a key holding both 'ising' and 'gauss', ising first, resolved to Gaussian
C7_Witness ==
    /\ call.op = "get"
    /\ call.arg = <<"I", "s", "i", "n", "g", "G", "A", "U", "S", "S">>
    /\ call.ret = "GaussianLayer"

\* ---- C1 ----
\* C1: after every call, sample_size equals the number of rows passed to
\* online_param_update so far (0 before the first call), whether the call
\* returned or failed.
C1_SampleSizeCountsRows == sample_size = rows_total

\* ---- C2 ----
Moment1(j) == Rat(data_sum.s1[j], rows_total)
Moment2(j) == Rat(data_sum.s2[j], rows_total)

\* C2: a fresh Bernoulli, Ising or Gaussian layer fed mini-batches holds the
\* moments of all the rows seen, whatever the split into batches and their
\* order: logistic(loc), tanh(loc), and loc with exp(log_var) + loc^2, equal
\* the column sums divided by the row count, and the parameters are the
\* inverse of those moments.
C2_MomentsOfWholeDataset ==
    rows_total > 0 =>
        \A j \in 1..len :
            CASE kind = "bern" ->
                    /\ expit(int_params.loc[j]) = Moment1(j)
                    /\ int_params.loc[j] = logit(Moment1(j))
              [] kind = "ising" ->
                    /\ tanh(int_params.loc[j]) = Moment1(j)
                    /\ int_params.loc[j] = atanh(Moment1(j))
              [] kind = "gauss" ->
                    /\ int_params.loc[j] = Moment1(j)
                    /\ RAdd(exp(int_params.log_var[j]),
                            RMul(int_params.loc[j], int_params.loc[j])) = Moment2(j)
              [] OTHER -> TRUE

\* three rows fed in more than one batch, the units seeing different data
C2_Witness ==
    /\ kind \in {"bern", "ising", "gauss"}
    /\ rows_total = 3
    /\ call.op = "online_param_update"
    /\ Len(call.arg) < 3
    /\ data_sum.s1[1] # data_sum.s1[2]
    /\ sample_size = 3

\* ---- C3 ----
\* C3 as stated: only parameter_step and online_param_update change int_params.
C3_OnlyStepAndOnlineMutate ==
    [][int_params' # int_params =>
          call'.op \in {"parameter_step", "online_param_update"}]_vars

\* C3, amended: int_params are changed only by parameter_step,
\* online_param_update and the Gaussian layer's shrink_parameters; every other
\* operation leaves every entry of int_params unchanged.
C3_IntParamsFrame ==
    [][int_params' # int_params =>
          \/ call'.op \in {"parameter_step", "online_param_update"}
          \/ call'.op = "shrink_parameters" /\ kind = "gauss"]_vars

\* the variance the rows seen so far give unit j
DataVar(j) == RSub(Moment2(j), RMul(Moment1(j), Moment1(j)))

\* a Gaussian layer fitted to data in its first call and shrunk in its second,
\* left with a log_var that is no longer the fitted one
C3_Witness ==
    /\ kind = "gauss"
    /\ ncalls = 2
    /\ rows_total > 0
    /\ call.op = "shrink_parameters"
    /\ \E j \in 1..len : exp(int_params.log_var[j]) # DataVar(j)

\* ---- C4 ----
\* beta * (scaled_units . weights) for sample i and unit j of the last update
\* (two connected units), in rationals and in logarithms
FieldR(i, j) ==
    LET u == last_update.units[i]
        w == last_update.weights
        f == RAdd(RMul(RInt(u[1]), w[1][j]), RMul(RInt(u[2]), w[2][j]))
    IN  IF last_update.beta = <<>> THEN f ELSE RMul(RInt(last_update.beta[i][1]), f)
FieldL(i, j) ==
    LET u == last_update.units[i]
        w == last_update.weights
        f == LAdd(LScale(u[1], w[1][j]), LScale(u[2], w[2][j]))
    IN  IF last_update.beta = <<>> THEN f ELSE LScale(last_update.beta[i][1], f)

Mat(F(_, _)) == [i \in 1..Len(last_update.units) |-> [j \in 1..len |-> F(i, j)]]

\* what the last update must have written, from its arguments and the loc of then
ExpectedExt ==
    LET ip == last_update.int_params
    IN  CASE kind = "gauss" ->
                [mean |-> Mat(LAMBDA i, j : RAdd(FieldR(i, j), ip.loc[j])),
                 variance |-> Mat(LAMBDA i, j : exp(ip.log_var[j]))]
          [] kind = "expo" ->
                [rate |-> Mat(LAMBDA i, j : RSub(ip.loc[j], FieldR(i, j)))]
          [] OTHER ->
                [field |-> Mat(LAMBDA i, j : LAdd(FieldL(i, j), ip.loc[j]))]

\* what mode() and mean() must return after that update
ExpectedReadout(op) ==
    LET e == ExpectedExt
    IN  CASE kind = "gauss" -> e.mean
          [] kind = "ising" /\ op = "mode" ->
                Mat(LAMBDA i, j : IF e.field[i][j][1] > e.field[i][j][2] THEN 1 ELSE -1)
          [] kind = "ising" /\ op = "mean" ->
                Mat(LAMBDA i, j : Rat(e.field[i][j][1] - e.field[i][j][2],
                                      e.field[i][j][1] + e.field[i][j][2]))
          [] kind = "bern" /\ op = "mode" ->
                Mat(LAMBDA i, j : IF e.field[i][j][1] > e.field[i][j][2] THEN 1 ELSE 0)
          [] kind = "bern" /\ op = "mean" ->
                Mat(LAMBDA i, j : Rat(e.field[i][j][1],
                                      e.field[i][j][1] + e.field[i][j][2]))
          [] kind = "expo" /\ op = "mean" ->
                Mat(LAMBDA i, j : Rat(e.rate[i][j][2], e.rate[i][j][1]))

\* C4: once update has been called, the extrinsic parameters are
\* beta * (scaled_units . weights) + loc (loc - beta * (...) for the Exponential
\* rate) of the latest update, with the loc of that time; mode() and mean()
\* return a function of them alone; and no call but update changes them.
C4_ReadoutFollowsLastUpdate ==
    /\ [](last_update # <<>> => ext_params = ExpectedExt)
    /\ [](/\ last_update # <<>>
          /\ call.op \in {"mode", "mean"}
          /\ call.err = "none"
          => call.ret = ExpectedReadout(call.op))
    /\ [][call'.op # "update" => ext_params' = ext_params]_vars

\* mean() read after the parameters moved on from those of the last update
C4_Witness ==
    /\ last_update # <<>>
    /\ call.op = "mean"
    /\ call.err = "none"
    /\ last_update.beta # <<>>
    /\ int_params # last_update.int_params

\* ---- C5 ----
\* the projections callers register
Project(c, fam, x) ==
    IF fam = "R"
    THEN (IF c = "non_negative" THEN (IF x[1] < 0 THEN RZero ELSE x)
          ELSE (IF x[1] > 0 THEN RZero ELSE x))
    ELSE (IF c = "non_negative" THEN (IF x[1] < x[2] THEN LZero ELSE x)
          ELSE (IF x[1] > x[2] THEN LZero ELSE x))

\* ip with every registered constraint applied to its parameter
Constrained(ip) ==
    [name \in DOMAIN ip |->
        IF name \in DOMAIN requested
        THEN [j \in 1..Len(ip[name]) |->
                 Project(requested[name], Family(kind, name), ip[name][j])]
        ELSE ip[name]]

\* ip with the named deltas subtracted
Subtracted(ip, deltas) ==
    [name \in DOMAIN ip |->
        IF \E d \in 1..Len(deltas) : deltas[d][1] = name
        THEN LET v == deltas[CHOOSE d \in 1..Len(deltas) : deltas[d][1] = name][2]
             IN  [j \in 1..Len(ip[name]) |->
                     IF Family(kind, name) = "R" THEN RSub(ip[name][j], v[j])
                     ELSE LSub(ip[name][j], v[j])]
        ELSE ip[name]]

\* C5: parameter_step(deltas) subtracts deltas[name] from int_params[name] for
\* every name in deltas, leaves the other parameters as they were, and then
\* applies every registered constraint to its parameter, whether or not any
\* constraint is registered.
C5_StepThenConstraints ==
    [][call'.op = "parameter_step" =>
          /\ call'.err = "none"
          /\ int_params' = Constrained(Subtracted(int_params, call'.arg))]_vars

\* ---- C6 ----
\* C6: mode() on an Exponential layer raises the unsupported-operation error in
\* every state, returns nothing, and leaves int_params, ext_params and
\* sample_size as they were.
C6_ExponentialModeRaises ==
    [][(kind = "expo" /\ call'.op = "mode") =>
          /\ call'.err = "NotImplementedError"
          /\ call'.ret = <<>>
          /\ UNCHANGED <<int_params, ext_params, sample_size>>]_vars

\* mode() on an Exponential layer whose rate has been set and whose loc has moved
C6_Witness ==
    /\ kind = "expo"
    /\ call.op = "mode"
    /\ call.err = "NotImplementedError"
    /\ last_update # <<>>
    /\ int_params.loc # zeros("R", len)

\* ---- C8 ----
\* C8: on a layer with constraints registered, each an idempotent projection,
\* enforce_constraints() completes without error and leaves every parameter
\* projected, that is a fixed point of its constraint, and a second call in a
\* row leaves every parameter as the first one left it.
C8_EnforceIdempotent ==
    [][call'.op = "enforce_constraints" =>
          /\ call'.err = "none"
          /\ int_params' = Constrained(int_params)
          /\ Constrained(int_params') = int_params'
          /\ (call.op = "enforce_constraints" => int_params' = int_params)]_vars

\* ---- C9 ----
\* C9: after add_penalty (add_constraint) the penalties (constraints) mapping
\* holds, for each name passed, the functional of this latest registration and
\* keeps the other names' entries; the constraints mapping is the last
\* registration per name.
C9_LastWriteWins ==
    /\ call.op = "add_penalty" =>
          \A name \in DOMAIN call.arg :
              name \in DOMAIN penalties /\ penalties[name] = call.arg[name]
    /\ call.op = "add_constraint" =>
          /\ call.err = "none"
          /\ \A name \in DOMAIN call.arg :
                name \in DOMAIN constraints /\ constraints[name] = call.arg[name]
    /\ DOMAIN constraints = DOMAIN requested
    /\ \A name \in DOMAIN requested : constraints[name] = requested[name]

\* ---- C10 ----
\* the unit in which the two samples of an energy call differ
Raised(data) == CHOOSE u \in 1..len : data[1][u] # data[2][u]

\* loc[u] is a positive number and every loc is a number
LocPositive(u) ==
    IF Family(kind, "loc") = "R"
    THEN /\ \A j \in 1..len : RFinite(int_params.loc[j])
         /\ int_params.loc[u][1] > 0
    ELSE /\ \A j \in 1..len : LFinite(int_params.loc[j])
         /\ LPos(int_params.loc[u])

\* every variance of a Gaussian layer is a positive number
VarPositive ==
    \A j \in 1..len : LET v == exp(int_params.log_var[j]) IN RFinite(v) /\ v[1] > 0

\* energy() was called on a unit layer with two samples, the second having the
\* larger value in one unit, whose loc is positive
EnergyCase ==
    /\ kind \in Kinds
    /\ call.op = "energy"
    /\ LocPositive(Raised(call.arg))
    /\ kind = "gauss" => VarPositive

\* C10 as stated: for all four variants the larger value has the smaller energy.
C10_EnergyDecreasesEverywhere ==
    EnergyCase => EnergyLess(kind, call.ret[2], call.ret[1])

\* C10, amended: with a positive loc for the unit (every loc a number),
\* increasing the unit's value strictly decreases the energy of an Ising and
\* of a Bernoulli layer, strictly increases that of an Exponential layer, and
\* for a Gaussian layer (positive variances) decreases it exactly when the two
\* values' sum is below twice the unit's loc.
C10_EnergySign ==
    EnergyCase =>
        LET u == Raised(call.arg)
            falls == EnergyLess(kind, call.ret[2], call.ret[1])
        IN  CASE kind \in {"ising", "bern"} -> falls
              [] kind = "expo" -> EnergyLess(kind, call.ret[1], call.ret[2])
              [] kind = "gauss" ->
                    falls <=> RLess(RInt(call.arg[1][u] + call.arg[2][u]),
                                    RMul(RInt(2), int_params.loc[u]))

\* the energy of an Exponential layer whose units have different loc, taken
\* after two steps of its parameters
C10_Witness ==
    /\ EnergyCase
    /\ kind = "expo"
    /\ ncalls = 3
    /\ int_params.loc[1] # int_params.loc[2]
    /\ call.ret[1] # call.ret[2]

\* ---- C11 ----
\* the field of the last update, beta omitted: scaled_units . weights
LastPhi == dot(FieldFamily(kind), last_update.units, last_update.weights)

\* the field moved by one step: by 1 for the rational fields, by ln 2 (Ising:
\* (1/2) ln 2) for the logarithms, forward (s = 1) or backward (s = -1)
Shifted(phi, s) ==
    [i \in 1..Len(phi) |-> [j \in 1..Len(phi[i]) |->
        IF FieldFamily(kind) = "R" THEN RAdd(phi[i][j], RInt(s))
        ELSE LAdd(phi[i][j], IF s = 1 THEN <<2, 1>> ELSE <<1, 2>>)]]

LogZ(phi) == log_partition_function(kind, int_params, phi)

\* every parameter is a number, the variances are positive, and the
\* Exponential rate loc - phi is positive where the partition function is taken
Regular(phi) ==
    /\ \A name \in DOMAIN int_params : \A j \in 1..len :
          IF Family(kind, name) = "R" THEN RFinite(int_params[name][j])
          ELSE LFinite(int_params[name][j])
    /\ kind = "expo" =>
          \A i \in 1..Len(phi) : \A j \in 1..len :
              RLess(phi[i][j], int_params.loc[j])

\* m is the derivative of log Z in phi at entry (i, j), the derivative taken
\* from the values of log_partition_function itself:
\*  Gaussian    : log Z is quadratic in phi, so its derivative is the central
\*                difference (logZ(phi + 1) - logZ(phi - 1)) / 2;
\*  Bernoulli   : exp(log Z) - 1 doubles when phi grows by ln 2, so it is its
\*                own derivative and (log Z)' = (Z - 1) / Z;
\*  Ising       : Z = cosh, so (log Z)'^2 = 1 - 1 / Z^2, with the sign of the
\*                central difference;
\*  Exponential : 1 / Z is linear in phi (taken at phi, phi - 1, phi - 2,
\*                where it is positive), so (log Z)' = -(1/Z)' Z.
IsDerivative(phi, i, j, m) ==
    LET f == LogZ(phi)[i][j]
        fp == LogZ(Shifted(phi, 1))[i][j]
        fm == LogZ(Shifted(phi, -1))[i][j]
    IN  CASE kind = "gauss" ->
                /\ fp[2] = fm[2]
                /\ m = RMul(<<1, 2>>, RSub(fp[1], fm[1]))
          [] kind = "bern" ->
                /\ RSub(exp(fp), ROne) = RMul(RInt(2), RSub(exp(f), ROne))
                /\ m = RDiv(RSub(exp(f), ROne), exp(f))
          [] kind = "ising" ->
                /\ RMul(m, m) = RSub(ROne, Rat(f[2], f[1]))
                /\ (m[1] > 0 <=> LLess(fm, fp))
                /\ (m[1] < 0 <=> LLess(fp, fm))
          [] kind = "expo" ->
                LET r == exp(LNeg(f))
                    rm == exp(LNeg(fm))
                    rmm == exp(LNeg(LogZ(Shifted(phi, -2))[i][j]))
                IN  /\ RSub(rmm, rm) = RSub(rm, r)
                    /\ m = RDiv(RSub(rm, r), r)

\* mean() was read right after an update without beta, the parameters being
\* those of that update
MeanAtField ==
    /\ kind \in Kinds
    /\ call.op = "mean"
    /\ call.err = "none"
    /\ last_update # <<>>
    /\ last_update.beta = <<>>
    /\ int_params = last_update.int_params
    /\ Regular(LastPhi)

\* C11: for each variant, what mean() returns after update with the field phi
\* (beta omitted) is the derivative in phi of log_partition_function at phi.
C11_MeanIsLogPartitionDerivative ==
    MeanAtField =>
        \A i \in 1..Len(LastPhi) : \A j \in 1..len :
            IsDerivative(LastPhi, i, j, call.ret[i][j])

\* ---- C12 ----
\* the loc the recursion on the running mean 1/loc gives an Exponential layer:
\* the reciprocal of the batch mean on a fresh layer, and after n_prev rows the
\* reciprocal of the old mean and the batch mean weighted by their row counts
ExpectedRate(loc, ss, data) ==
    LET m == mean_axis0(data)
        old == [j \in 1..Len(loc) |-> reciprocal(loc[j])]
        new == IF ss = 0 THEN m ELSE Recur(old, m, ss, Len(data))
    IN  [j \in 1..Len(loc) |-> reciprocal(new[j])]

\* C12: online_param_update on an Exponential layer, given a non-empty batch
\* of n rows, completes without error, sets loc to the reciprocal of the
\* running mean updated by the shared recursion (1/(batch mean) on a fresh
\* layer), and increases sample_size by n.
C12_ExponentialMomentMatching ==
    [][(kind = "expo" /\ call'.op = "online_param_update") =>
          /\ call'.err = "none"
          /\ sample_size' = sample_size + Len(call'.arg)
          /\ int_params'.loc = ExpectedRate(int_params.loc, sample_size, call'.arg)]_vars

\* ---- C13 ----
\* the sum over the samples of unit j
ColumnSum(vis, j) == SumSeq([i \in 1..Len(vis) |-> RInt(vis[i][j])])

\* sign * (mean over the samples of unit j), divided by the variance on a
\* Gaussian layer, whose statistic is the rescaled unit
SampleMean(vis, j, sign) ==
    LET m == RMul(RInt(sign), RDiv(ColumnSum(vis, j), RInt(Len(vis))))
    IN  IF kind = "gauss" THEN RDiv(m, exp(int_params.log_var[j])) ELSE m

\* the gradient of the penalty registered for loc, nothing when there is none
LocPenalty(j) ==
    IF "loc" \in DOMAIN penalties
    THEN PenaltyGrad(penalties.loc, Family(kind, "loc"), int_params.loc[j])
    ELSE <<RZero, LZero>>

\* derivatives() returned on a unit layer, every loc a number (and every
\* variance of a Gaussian layer positive)
DerivativesCase ==
    /\ kind \in Kinds
    /\ call.op = "derivatives"
    /\ call.err = "none"
    /\ Regular(<<>>)
    /\ kind = "gauss" => VarPositive

\* the loc entry of the result is sign * mean plus the penalty's gradient
LocGradientIs(sign) ==
    \A j \in 1..len :
        LET g == LocPenalty(j)
        IN  call.ret.loc[j] = <<RAdd(SampleMean(call.arg[1], j, sign), g[1]), g[2]>>

\* C13 as stated: the loc gradient is minus the sample mean for every variant.
C13_NegativeMeanEverywhere == DerivativesCase => LocGradientIs(-1)

\* C13, amended: derivatives returns for loc minus the mean over the samples
\* of vis on an Ising and a Bernoulli layer, minus the mean of vis / var on a
\* Gaussian layer, and plus the mean of vis on an Exponential layer, plus the
\* gradient of the penalty registered for loc (nothing without one); and the
\* call leaves int_params, ext_params and the penalties unchanged.
C13_LocGradient ==
    /\ [](DerivativesCase => LocGradientIs(IF kind = "expo" THEN 1 ELSE -1))
    /\ [][call'.op = "derivatives" =>
             UNCHANGED <<int_params, ext_params, penalties>>]_vars

\* derivatives of an Exponential layer with a penalty on a loc that has moved
C13_Witness ==
    /\ DerivativesCase
    /\ kind = "expo"
    /\ "loc" \in DOMAIN penalties
    /\ int_params.loc # zeros("R", len)
    /\ Len(call.arg[1]) = 2

\* ---- C14 ----
\* the deltas name a parameter the layer does not have
NamesUnknown(deltas) ==
    \E d \in 1..Len(deltas) : deltas[d][1] \notin DOMAIN int_params

\* C14: parameter_step with a name absent from int_params raises KeyError,
\* online_param_update with rows of another length than num_units (a single
\* column included) raises an error rather than broadcasting, and in both
\* cases int_params and sample_size keep their values.
C14_MismatchSignalled ==
    [][/\ (call'.op = "parameter_step" /\ NamesUnknown(call'.arg)) =>
             /\ call'.err = "KeyError"
             /\ UNCHANGED <<int_params, sample_size>>
       /\ (call'.op = "online_param_update" /\ Len(call'.arg[1]) # len) =>
             /\ call'.err # "none"
             /\ UNCHANGED <<int_params, sample_size>>]_vars
====
